---- MODULE Spec2Model ----
(***************************************************************************)
(* Model of the two M5Stack display-loop samples, examples/flash-sample.py *)
(* (the "extended" variant) and examples/flash-sample-simple.py (the       *)
(* "simple" variant).  One action per statement of main()'s loop; every    *)
(* collaborator call may return, raise a non-interrupt fault (an           *)
(* Exception) or be cut short by a KeyboardInterrupt.                      *)
(***************************************************************************)
EXTENDS Integers, Sequences, FiniteSets, TLC

VARIABLES
    variant,      \* which script is running: "ext" or "simple" (or a function harness)
    pc,           \* position of main(): the statement about to be executed
    exit,         \* how main() ended: "running", "return" or the uncaught exception
    iters,        \* number of loop iterations started (entries of the try block)
    skipped,      \* number of iterations abandoned by a caught fault before `count += 1`
    count,        \* local `count`
    draw,         \* the three values getrandbits returned to random_color()
    bg_color,     \* local `bg_color`
    screen,       \* colour last passed to setScreenColor
    counterText,  \* text of the `counter` label
    start_time,   \* local `start_time`
    elapsed,      \* local `elapsed`
    timeText,     \* text of the `time_display` label
    colorText,    \* text of the `color_info` label
    barWidth,     \* width of the progress rectangle on screen
    statusText,   \* text of the `status` label
    statusColor,  \* colour of the `status` label
    titleColor,   \* colour of the `title` label
    subText,      \* text of the `subtitle` label
    subColor,     \* colour of the `subtitle` label
    infoColor,    \* colour of the simple variant's `info` label
    btn,          \* hardware state of the three buttons when they were polled
    hit,          \* branch of the if/elif chain taken by the button check
    debounced,    \* number of 0.1 s delays executed in the current iteration
    printed,      \* set of lines written to the console
    faults        \* number of faults (Exceptions) raised so far

vars == <<variant, pc, exit, iters, skipped, count, draw, bg_color, screen,
          counterText, start_time, elapsed, timeText, colorText,
          barWidth, statusText, statusColor, titleColor, subText, subColor,
          infoColor, btn, hit, debounced, printed, faults>>

(***************************************************************************)
(* Bounds of the exploration.                                              *)
(***************************************************************************)
MaxIter == 8          \* iterations started in one run
MaxFaults == 2        \* faults raised in one run
MaxElapsed == 6100    \* largest elapsed-seconds input of the time formatter

(***************************************************************************)
(* Colours, as the 24-bit integers written in the source.                  *)
(***************************************************************************)
WHITE   == 16777215   \* 0xFFFFFF
RED     == 16711680   \* 0xFF0000
GREEN   == 65280      \* 0x00FF00
BLUE    == 255        \* 0x0000FF
YELLOW  == 16776960   \* 0xFFFF00
MAGENTA == 16711935   \* 0xFF00FF
CYAN    == 65535      \* 0x00FFFF
SKY     == 35071      \* 0x0088FF

(***************************************************************************)
(* Integer helpers: shifts and bitwise OR, bit by bit.                     *)
(***************************************************************************)
RECURSIVE Pow2(_)
Pow2(n) == IF n = 0 THEN 1 ELSE 2 * Pow2(n - 1)

Shl(x, n) == x * Pow2(n)

Shr(x, n) == x \div Pow2(n)

RECURSIVE BitOr(_, _)
BitOr(x, y) ==
    IF x = 0 THEN y
    ELSE IF y = 0 THEN x
    ELSE (IF (x % 2 = 1) \/ (y % 2 = 1) THEN 1 ELSE 0)
         + 2 * BitOr(x \div 2, y \div 2)

RECURSIVE BitAnd(_, _)
BitAnd(x, y) ==
    IF x = 0 \/ y = 0 THEN 0
    ELSE (IF (x % 2 = 1) /\ (y % 2 = 1) THEN 1 ELSE 0)
         + 2 * BitAnd(x \div 2, y \div 2)

(***************************************************************************)
(* Text formatting.                                                        *)
(***************************************************************************)
DecDigit == <<"0", "1", "2", "3", "4", "5", "6", "7", "8", "9">>

HexDigit == <<"0", "1", "2", "3", "4", "5", "6", "7", "8", "9",
              "A", "B", "C", "D", "E", "F">>

\* str(n) / f"{n}" for n >= 0
RECURSIVE Str(_)
Str(n) == IF n < 10 THEN DecDigit[n + 1]
          ELSE Str(n \div 10) \o DecDigit[(n % 10) + 1]

\* f"{n:X}" for n >= 0
RECURSIVE Hex(_)
Hex(n) == IF n < 16 THEN HexDigit[n + 1]
          ELSE Hex(n \div 16) \o HexDigit[(n % 16) + 1]

\* the zero fill of a format spec such as 02d or 06X: pad on the left up to
\* width w, never truncate
RECURSIVE ZeroPad(_, _)
ZeroPad(s, w) == IF Len(s) >= w THEN s ELSE ZeroPad("0" \o s, w)

(***************************************************************************)
(* Pure functions of flash-sample.py.                                      *)
(***************************************************************************)
\* urandom.getrandbits(n): any unsigned integer of n bits
getrandbits(n) == 0 .. (Pow2(n) - 1)

\* random_color() with the green field shifted one bit too far
random_color_shift6(r, g, b) == BitOr(BitOr(Shl(r, 11), Shl(g, 6)), b)

\* random_color() given the three draws r (5 bit), g (6 bit), b (5 bit)
random_color(r, g, b) == BitOr(BitOr(Shl(r, 11), Shl(g, 5)), b)

\* `count = 1` written for `count += 1`
NextCount_assign(c) == 1

\* count += 1
NextCount(c) == c + 1

\* the counter label rendered without its "Count: " prefix
CounterLabel_bare(c) == Str(c)

\* f"Count: {count}"
CounterLabel(c) == "Count: " \o Str(c)

\* time.ticks_diff(now, start) // 1000
ElapsedSeconds(now, start) == (now - start) \div 1000

\* the time label with the zero fill left out of both fields
TimeLabel_nopad(e) == "Time: " \o Str(e \div 60) \o ":" \o Str(e % 60)

\* minutes = elapsed // 60; seconds = elapsed % 60;
\* f"Time: {minutes:02d}:{seconds:02d}"
TimeLabel(e) ==
    "Time: " \o ZeroPad(Str(e \div 60), 2) \o ":" \o ZeroPad(Str(e % 60), 2)

\* f"RGB: 0x{bg_color:06X}"
ColorLabel(c) == "RGB: 0x" \o ZeroPad(Hex(c), 6)

\* int(150 * (math.sin(count * 0.2) + 1)), tabulated for count = 0 .. 19
ProgressTable == <<150, 179, 208, 234, 257, 276, 289, 297, 299, 296,
                   286, 271, 251, 227, 200, 171, 141, 111, 83, 58>>

Progress(c) == ProgressTable[c + 1]

\* the blink test written as `count % 4 < 3`
BlinkText_lt3(c) == IF c % 4 < 3 THEN "Status: ACTIVE" ELSE "Status: READY"

\* the two branches of the status blink
BlinkText(c) == IF c % 4 < 2 THEN "Status: ACTIVE" ELSE "Status: READY"

BlinkColor(c) == IF c % 4 < 2 THEN GREEN ELSE SKY

title_colors == <<WHITE, RED, GREEN, BLUE, YELLOW, MAGENTA, CYAN>>

\* the palette index taken modulo 6
TitleColor_mod6(c) == title_colors[(c % 6) + 1]

\* title_colors[count % len(title_colors)] (Python lists are 0-based)
TitleColor(c) == title_colors[(c % Len(title_colors)) + 1]

Buttons == {"A", "B", "C"}

\* the chain with btnB tested before btnA
ButtonBranch_BFirst(s) ==
    IF s["B"] THEN "B"
    ELSE IF s["A"] THEN "A"
    ELSE IF s["C"] THEN "C"
    ELSE "none"

\* the if / elif / elif / else chain over btnA, btnB, btnC
ButtonBranch(s) ==
    IF s["A"] THEN "A"
    ELSE IF s["B"] THEN "B"
    ELSE IF s["C"] THEN "C"
    ELSE "none"

SubtitleText(h) ==
    CASE h = "A" -> "Button A Pressed!"
      [] h = "B" -> "Button B Pressed!"
      [] h = "C" -> "Button C Pressed!"
      [] OTHER   -> "Random Color Background"

SubtitleColor(h) ==
    CASE h = "A" -> RED
      [] h = "B" -> GREEN
      [] h = "C" -> BLUE
      [] OTHER   -> YELLOW

(***************************************************************************)
(* Pure function of flash-sample-simple.py.                                *)
(***************************************************************************)
\* str(count)
SimpleCounterLabel(c) == Str(c)

(***************************************************************************)
(* Inputs of the loop model: the values the collaborators hand back.       *)
(***************************************************************************)
\* draws of getrandbits(5), getrandbits(6), getrandbits(5)
DrawSample == {<<0, 0, 0>>, <<31, 63, 31>>}

\* draws of getrandbits(16) in the simple variant
Draw16Sample == {0, 65535}

\* milliseconds between the start timestamp and a later clock reading
TickSample == {0, 59999, 125000}

\* values of time.ticks_ms() when main() starts
StartSample == {0}

ButtonStates == [Buttons -> BOOLEAN]

NoButton == [x \in Buttons |-> FALSE]

(***************************************************************************)
(* Program positions.                                                      *)
(***************************************************************************)
\* statements of the try block of flash-sample.py, lines 60-112
ExtBodyPcs == {"draw", "fill", "inc", "ctext", "clock", "ttext", "cinfo",
               "barbg", "barfill", "stext", "scolor", "title", "poll",
               "subtext", "subcolor", "debounce", "sleep"}

\* statements of the `except Exception` handler, lines 119-121
ExtHandlerPcs == {"hstext", "hscolor", "hsleep"}

\* statements of the try block of flash-sample-simple.py, lines 28-39
SimpleBodyPcs == {"draw", "fill", "inc", "ctext", "tcolor", "icolor", "sleep"}

\* statements that call no collaborator and so cannot raise a fault
NoCallPcs == {"inc"}

(***************************************************************************)
(* State after construction.                                               *)
(***************************************************************************)
\* flash-sample.py: init_ui() and the locals set before the loop
InitExt ==
    /\ pc = "top" /\ exit = "running"
    /\ iters = 0 /\ skipped = 0 /\ count = 0
    /\ draw = <<0, 0, 0>> /\ bg_color = 0 /\ screen = 0
    /\ counterText = "Count: 0"
    /\ start_time \in StartSample /\ elapsed = 0
    /\ timeText = "Time: 00:00"
    /\ colorText = "RGB: 0x000000"
    /\ barWidth = 0
    /\ statusText = "Status: Running" /\ statusColor = GREEN
    /\ titleColor = WHITE
    /\ subText = "Random Color Background" /\ subColor = YELLOW
    /\ infoColor = 0
    /\ btn = NoButton /\ hit = "none" /\ debounced = 0
    /\ printed = {"M5Stack Flash Sample Started!"}
    /\ faults = 0

\* flash-sample-simple.py: the three labels and count = 0
InitSimple ==
    /\ pc = "top" /\ exit = "running"
    /\ iters = 0 /\ skipped = 0 /\ count = 0
    /\ draw = <<0, 0, 0>> /\ bg_color = 0 /\ screen = 0
    /\ counterText = "0"
    /\ start_time = 0 /\ elapsed = 0
    /\ timeText = "" /\ colorText = "" /\ barWidth = 0
    /\ statusText = "" /\ statusColor = 0
    /\ titleColor = WHITE
    /\ subText = "" /\ subColor = 0
    /\ infoColor = CYAN
    /\ btn = NoButton /\ hit = "none" /\ debounced = 0
    /\ printed = {"Simple Flash Sample Started!"}
    /\ faults = 0

Init ==
    \/ variant = "ext" /\ InitExt
    \/ variant = "simple" /\ InitSimple

(***************************************************************************)
(* flash-sample.py: main(), lines 57-121.                                  *)
(***************************************************************************)
\* flash-sample.py: `while True:` and entry of the try block
LoopTop ==
    /\ variant = "ext"
    /\ pc = "top"
    /\ iters < MaxIter
    /\ iters' = iters + 1
    /\ btn' = NoButton
    /\ hit' = "none"
    /\ debounced' = 0
    /\ pc' = "draw"
    /\ UNCHANGED <<variant, exit, skipped, count, draw, bg_color, screen,
                   counterText, start_time, elapsed, timeText, colorText,
                   barWidth, statusText, statusColor, titleColor,
                   subText, subColor, infoColor, printed, faults>>

\* bg_color = random_color()
Draw ==
    \E d \in DrawSample :
        /\ variant = "ext"
        /\ pc = "draw"
        /\ draw' = d
        /\ bg_color' = random_color(d[1], d[2], d[3])
        /\ pc' = "fill"
        /\ UNCHANGED <<variant, exit, iters, skipped, count, screen,
                       counterText, start_time, elapsed, timeText,
                       colorText, barWidth, statusText, statusColor,
                       titleColor, subText, subColor, infoColor, btn,
                       hit, debounced, printed, faults>>

\* setScreenColor(bg_color)
Fill ==
    /\ variant = "ext"
    /\ pc = "fill"
    /\ screen' = bg_color
    /\ pc' = "inc"
    /\ UNCHANGED <<variant, exit, iters, skipped, count, draw, bg_color,
                   counterText, start_time, elapsed, timeText, colorText,
                   barWidth, statusText, statusColor, titleColor,
                   subText, subColor, infoColor, btn, hit, debounced,
                   printed, faults>>

\* count += 1
Inc ==
    /\ variant = "ext"
    /\ pc = "inc"
    /\ count' = NextCount(count)
    /\ pc' = "ctext"
    /\ UNCHANGED <<variant, exit, iters, skipped, draw, bg_color, screen,
                   counterText, start_time, elapsed, timeText, colorText,
                   barWidth, statusText, statusColor, titleColor,
                   subText, subColor, infoColor, btn, hit, debounced,
                   printed, faults>>

\* counter.setText(f"Count: {count}")
CounterSetText ==
    /\ variant = "ext"
    /\ pc = "ctext"
    /\ counterText' = CounterLabel(count)
    /\ pc' = "clock"
    /\ UNCHANGED <<variant, exit, iters, skipped, count, draw, bg_color,
                   screen, start_time, elapsed, timeText, colorText,
                   barWidth, statusText, statusColor, titleColor,
                   subText, subColor, infoColor, btn, hit, debounced,
                   printed, faults>>

\* elapsed = time.ticks_diff(time.ticks_ms(), start_time) // 1000
ReadClock ==
    \E t \in TickSample :
        /\ variant = "ext"
        /\ pc = "clock"
        /\ elapsed' = ElapsedSeconds(start_time + t, start_time)
        /\ pc' = "ttext"
        /\ UNCHANGED <<variant, exit, iters, skipped, count, draw,
                       bg_color, screen, counterText, start_time,
                       timeText, colorText, barWidth, statusText,
                       statusColor, titleColor, subText, subColor,
                       infoColor, btn, hit, debounced, printed, faults>>

\* time_display.setText(f"Time: {minutes:02d}:{seconds:02d}")
TimeSetText ==
    /\ variant = "ext"
    /\ pc = "ttext"
    /\ timeText' = TimeLabel(elapsed)
    /\ pc' = "cinfo"
    /\ UNCHANGED <<variant, exit, iters, skipped, count, draw, bg_color,
                   screen, counterText, start_time, elapsed, colorText,
                   barWidth, statusText, statusColor, titleColor,
                   subText, subColor, infoColor, btn, hit, debounced,
                   printed, faults>>

\* color_info.setText(f"RGB: 0x{bg_color:06X}")
ColorInfoSetText ==
    /\ variant = "ext"
    /\ pc = "cinfo"
    /\ colorText' = ColorLabel(bg_color)
    /\ pc' = "barbg"
    /\ UNCHANGED <<variant, exit, iters, skipped, count, draw, bg_color,
                   screen, counterText, start_time, elapsed, timeText,
                   barWidth, statusText, statusColor, titleColor,
                   subText, subColor, infoColor, btn, hit, debounced,
                   printed, faults>>

\* import math; progress = ...; lcd.rect(10, 200, 300, 20, ...)
BarBackground ==
    /\ variant = "ext"
    /\ pc = "barbg"
    /\ barWidth' = 0
    /\ pc' = "barfill"
    /\ UNCHANGED <<variant, exit, iters, skipped, count, draw, bg_color,
                   screen, counterText, start_time, elapsed, timeText,
                   colorText, statusText, statusColor, titleColor,
                   subText, subColor, infoColor, btn, hit, debounced,
                   printed, faults>>

\* lcd.rect(12, 202, progress, 16, ...)
BarFill ==
    /\ variant = "ext"
    /\ pc = "barfill"
    /\ barWidth' = Progress(count)
    /\ pc' = "stext"
    /\ UNCHANGED <<variant, exit, iters, skipped, count, draw, bg_color,
                   screen, counterText, start_time, elapsed, timeText,
                   colorText, statusText, statusColor, titleColor,
                   subText, subColor, infoColor, btn, hit, debounced,
                   printed, faults>>

\* status.setText("Status: ACTIVE") / status.setText("Status: READY")
StatusSetText ==
    /\ variant = "ext"
    /\ pc = "stext"
    /\ statusText' = BlinkText(count)
    /\ pc' = "scolor"
    /\ UNCHANGED <<variant, exit, iters, skipped, count, draw, bg_color,
                   screen, counterText, start_time, elapsed, timeText,
                   colorText, barWidth, statusColor, titleColor, subText,
                   subColor, infoColor, btn, hit, debounced, printed,
                   faults>>

\* status.setColor(0x00FF00) / status.setColor(0x0088FF)
StatusSetColor ==
    /\ variant = "ext"
    /\ pc = "scolor"
    /\ statusColor' = BlinkColor(count)
    /\ pc' = "title"
    /\ UNCHANGED <<variant, exit, iters, skipped, count, draw, bg_color,
                   screen, counterText, start_time, elapsed, timeText,
                   colorText, barWidth, statusText, titleColor, subText,
                   subColor, infoColor, btn, hit, debounced, printed,
                   faults>>

\* title.setColor(title_colors[count % len(title_colors)])
TitleSetColor ==
    /\ variant = "ext"
    /\ pc = "title"
    /\ titleColor' = TitleColor(count)
    /\ pc' = "poll"
    /\ UNCHANGED <<variant, exit, iters, skipped, count, draw, bg_color,
                   screen, counterText, start_time, elapsed, timeText,
                   colorText, barWidth, statusText, statusColor, subText,
                   subColor, infoColor, btn, hit, debounced, printed,
                   faults>>

\* btnA.isPressed() / btnB.isPressed() / btnC.isPressed(): the chain
\* reads the buttons' current state s and selects one branch
Poll ==
    \E s \in ButtonStates :
        /\ variant = "ext"
        /\ pc = "poll"
        /\ btn' = s
        /\ hit' = ButtonBranch(s)
        /\ pc' = "subtext"
        /\ UNCHANGED <<variant, exit, iters, skipped, count, draw,
                       bg_color, screen, counterText, start_time,
                       elapsed, timeText, colorText, barWidth,
                       statusText, statusColor, titleColor, subText,
                       subColor, infoColor, debounced, printed, faults>>

\* subtitle.setText(...) of the selected branch
SubtitleSetText ==
    /\ variant = "ext"
    /\ pc = "subtext"
    /\ subText' = SubtitleText(hit)
    /\ pc' = "subcolor"
    /\ UNCHANGED <<variant, exit, iters, skipped, count, draw, bg_color,
                   screen, counterText, start_time, elapsed, timeText,
                   colorText, barWidth, statusText, statusColor,
                   titleColor, subColor, infoColor, btn, hit, debounced,
                   printed, faults>>

\* subtitle.setColor(...) of the selected branch; only the three
\* button branches go on to time.sleep(0.1)
SubtitleSetColor ==
    /\ variant = "ext"
    /\ pc = "subcolor"
    /\ subColor' = SubtitleColor(hit)
    /\ pc' = IF hit = "none" THEN "sleep" ELSE "debounce"
    /\ UNCHANGED <<variant, exit, iters, skipped, count, draw, bg_color,
                   screen, counterText, start_time, elapsed, timeText,
                   colorText, barWidth, statusText, statusColor,
                   titleColor, subText, infoColor, btn, hit, debounced,
                   printed, faults>>

\* time.sleep(0.1)
Debounce ==
    /\ variant = "ext"
    /\ pc = "debounce"
    /\ debounced' = debounced + 1
    /\ pc' = "sleep"
    /\ UNCHANGED <<variant, exit, iters, skipped, count, draw, bg_color,
                   screen, counterText, start_time, elapsed, timeText,
                   colorText, barWidth, statusText, statusColor,
                   titleColor, subText, subColor, infoColor, btn, hit,
                   printed, faults>>

\* time.sleep(0.5), then back to `while True:`
Sleep ==
    /\ variant = "ext"
    /\ pc = "sleep"
    /\ pc' = "top"
    /\ UNCHANGED <<variant, exit, iters, skipped, count, draw, bg_color,
                   screen, counterText, start_time, elapsed, timeText,
                   colorText, barWidth, statusText, statusColor,
                   titleColor, subText, subColor, infoColor, btn, hit,
                   debounced, printed, faults>>

\* a KeyboardInterrupt raised inside the try block: print, break, and
\* main() returns
BodyInterrupt ==
    /\ variant = "ext"
    /\ pc \in ExtBodyPcs
    /\ printed' = printed \cup {"Program interrupted by user"}
    /\ pc' = "done"
    /\ exit' = "return"
    /\ UNCHANGED <<variant, iters, skipped, count, draw, bg_color,
                   screen, counterText, start_time, elapsed, timeText,
                   colorText, barWidth, statusText, statusColor,
                   titleColor, subText, subColor, infoColor, btn, hit,
                   debounced, faults>>

\* an Exception raised by a call inside the try block: the handler
\* prints the message and goes on to write the error indicator
BodyFault ==
    /\ variant = "ext"
    /\ pc \in ExtBodyPcs \ NoCallPcs
    /\ faults < MaxFaults
    /\ faults' = faults + 1
    /\ printed' = printed \cup {"Error occurred"}
    /\ skipped' = IF pc \in {"draw", "fill"} THEN skipped + 1 ELSE skipped
    /\ pc' = "hstext"
    /\ UNCHANGED <<variant, exit, iters, count, draw, bg_color, screen,
                   counterText, start_time, elapsed, timeText, colorText,
                   barWidth, statusText, statusColor, titleColor,
                   subText, subColor, infoColor, btn, hit, debounced>>

\* status.setText("Status: ERROR")
HandlerSetText ==
    /\ variant = "ext"
    /\ pc = "hstext"
    /\ statusText' = "Status: ERROR"
    /\ pc' = "hscolor"
    /\ UNCHANGED <<variant, exit, iters, skipped, count, draw, bg_color,
                   screen, counterText, start_time, elapsed, timeText,
                   colorText, barWidth, statusColor, titleColor, subText,
                   subColor, infoColor, btn, hit, debounced, printed,
                   faults>>

\* status.setColor(0xFF0000)
HandlerSetColor ==
    /\ variant = "ext"
    /\ pc = "hscolor"
    /\ statusColor' = RED
    /\ pc' = "hsleep"
    /\ UNCHANGED <<variant, exit, iters, skipped, count, draw, bg_color,
                   screen, counterText, start_time, elapsed, timeText,
                   colorText, barWidth, statusText, titleColor, subText,
                   subColor, infoColor, btn, hit, debounced, printed,
                   faults>>

\* time.sleep(1), then back to `while True:`
HandlerSleep ==
    /\ variant = "ext"
    /\ pc = "hsleep"
    /\ pc' = "top"
    /\ UNCHANGED <<variant, exit, iters, skipped, count, draw, bg_color,
                   screen, counterText, start_time, elapsed, timeText,
                   colorText, barWidth, statusText, statusColor,
                   titleColor, subText, subColor, infoColor, btn, hit,
                   debounced, printed, faults>>

\* an Exception raised by a call made in the `except Exception` handler:
\* no try block encloses it, so it leaves main()
HandlerFault ==
    /\ variant = "ext"
    /\ pc \in ExtHandlerPcs
    /\ faults < MaxFaults
    /\ faults' = faults + 1
    /\ pc' = "done"
    /\ exit' = "uncaught Exception"
    /\ UNCHANGED <<variant, iters, skipped, count, draw, bg_color,
                   screen, counterText, start_time, elapsed, timeText,
                   colorText, barWidth, statusText, statusColor,
                   titleColor, subText, subColor, infoColor, btn, hit,
                   debounced, printed>>

\* a KeyboardInterrupt raised while the `except Exception` handler runs:
\* no try block encloses it, so it leaves main()
HandlerInterrupt ==
    /\ variant = "ext"
    /\ pc \in ExtHandlerPcs
    /\ pc' = "done"
    /\ exit' = "uncaught KeyboardInterrupt"
    /\ UNCHANGED <<variant, iters, skipped, count, draw, bg_color,
                   screen, counterText, start_time, elapsed, timeText,
                   colorText, barWidth, statusText, statusColor,
                   titleColor, subText, subColor, infoColor, btn, hit,
                   debounced, printed, faults>>

(***************************************************************************)
(* flash-sample-simple.py: main(), lines 25-42.                            *)
(***************************************************************************)
\* flash-sample-simple.py: `while True:` and entry of the try block
SimpleLoopTop ==
    /\ variant = "simple"
    /\ pc = "top"
    /\ iters < MaxIter
    /\ iters' = iters + 1
    /\ pc' = "draw"
    /\ UNCHANGED <<variant, exit, skipped, count, draw, bg_color, screen,
                   counterText, start_time, elapsed, timeText, colorText,
                   barWidth, statusText, statusColor, titleColor,
                   subText, subColor, infoColor, btn, hit, debounced,
                   printed, faults>>

\* bg_color = random_color(), i.e. urandom.getrandbits(16)
SimpleDraw ==
    \E c \in Draw16Sample :
        /\ variant = "simple"
        /\ pc = "draw"
        /\ bg_color' = c
        /\ pc' = "fill"
        /\ UNCHANGED <<variant, exit, iters, skipped, count, draw,
                       screen, counterText, start_time, elapsed,
                       timeText, colorText, barWidth, statusText,
                       statusColor, titleColor, subText, subColor,
                       infoColor, btn, hit, debounced, printed, faults>>

\* setScreenColor(bg_color)
SimpleFill ==
    /\ variant = "simple"
    /\ pc = "fill"
    /\ screen' = bg_color
    /\ pc' = "inc"
    /\ UNCHANGED <<variant, exit, iters, skipped, count, draw, bg_color,
                   counterText, start_time, elapsed, timeText, colorText,
                   barWidth, statusText, statusColor, titleColor,
                   subText, subColor, infoColor, btn, hit, debounced,
                   printed, faults>>

\* count += 1
SimpleInc ==
    /\ variant = "simple"
    /\ pc = "inc"
    /\ count' = NextCount(count)
    /\ pc' = "ctext"
    /\ UNCHANGED <<variant, exit, iters, skipped, draw, bg_color, screen,
                   counterText, start_time, elapsed, timeText, colorText,
                   barWidth, statusText, statusColor, titleColor,
                   subText, subColor, infoColor, btn, hit, debounced,
                   printed, faults>>

\* counter.setText(str(count))
SimpleCounterSetText ==
    /\ variant = "simple"
    /\ pc = "ctext"
    /\ counterText' = SimpleCounterLabel(count)
    /\ pc' = "tcolor"
    /\ UNCHANGED <<variant, exit, iters, skipped, count, draw, bg_color,
                   screen, start_time, elapsed, timeText, colorText,
                   barWidth, statusText, statusColor, titleColor,
                   subText, subColor, infoColor, btn, hit, debounced,
                   printed, faults>>

\* title.setColor(random_color())
SimpleTitleSetColor ==
    \E c \in Draw16Sample :
        /\ variant = "simple"
        /\ pc = "tcolor"
        /\ titleColor' = c
        /\ pc' = "icolor"
        /\ UNCHANGED <<variant, exit, iters, skipped, count, draw,
                       bg_color, screen, counterText, start_time,
                       elapsed, timeText, colorText, barWidth,
                       statusText, statusColor, subText, subColor,
                       infoColor, btn, hit, debounced, printed, faults>>

\* info.setColor(random_color())
SimpleInfoSetColor ==
    \E c \in Draw16Sample :
        /\ variant = "simple"
        /\ pc = "icolor"
        /\ infoColor' = c
        /\ pc' = "sleep"
        /\ UNCHANGED <<variant, exit, iters, skipped, count, draw,
                       bg_color, screen, counterText, start_time,
                       elapsed, timeText, colorText, barWidth,
                       statusText, statusColor, titleColor, subText,
                       subColor, btn, hit, debounced, printed, faults>>

\* time.sleep(1), then back to `while True:`
SimpleSleep ==
    /\ variant = "simple"
    /\ pc = "sleep"
    /\ pc' = "top"
    /\ UNCHANGED <<variant, exit, iters, skipped, count, draw, bg_color,
                   screen, counterText, start_time, elapsed, timeText,
                   colorText, barWidth, statusText, statusColor,
                   titleColor, subText, subColor, infoColor, btn, hit,
                   debounced, printed, faults>>

\* a KeyboardInterrupt raised inside the try block: break, and main()
\* returns
SimpleInterrupt ==
    /\ variant = "simple"
    /\ pc \in SimpleBodyPcs
    /\ pc' = "done"
    /\ exit' = "return"
    /\ UNCHANGED <<variant, iters, skipped, count, draw, bg_color,
                   screen, counterText, start_time, elapsed, timeText,
                   colorText, barWidth, statusText, statusColor,
                   titleColor, subText, subColor, infoColor, btn, hit,
                   debounced, printed, faults>>

\* an Exception raised by a call inside the try block: the only handler
\* is `except KeyboardInterrupt`, so it leaves main()
SimpleFault ==
    /\ variant = "simple"
    /\ pc \in SimpleBodyPcs \ NoCallPcs
    /\ faults < MaxFaults
    /\ faults' = faults + 1
    /\ pc' = "done"
    /\ exit' = "uncaught Exception"
    /\ UNCHANGED <<variant, iters, skipped, count, draw, bg_color,
                   screen, counterText, start_time, elapsed, timeText,
                   colorText, barWidth, statusText, statusColor,
                   titleColor, subText, subColor, infoColor, btn, hit,
                   debounced, printed>>

(***************************************************************************)
(* The pure functions on their whole input ranges.                         *)
(***************************************************************************)
\* random_color() applied to the three draws chosen by InitColor
CallRandomColor ==
    /\ variant = "random_color"
    /\ pc = "call"
    /\ bg_color' = random_color(draw[1], draw[2], draw[3])
    /\ pc' = "ret"
    /\ UNCHANGED <<variant, exit, iters, skipped, count, draw, screen,
                   counterText, start_time, elapsed, timeText, colorText,
                   barWidth, statusText, statusColor, titleColor,
                   subText, subColor, infoColor, btn, hit, debounced,
                   printed, faults>>

\* lines 69-71 applied to the elapsed seconds chosen by InitTime
CallTimeLabel ==
    /\ variant = "time_label"
    /\ pc = "call"
    /\ timeText' = TimeLabel(elapsed)
    /\ pc' = "ret"
    /\ UNCHANGED <<variant, exit, iters, skipped, count, draw, bg_color,
                   screen, counterText, start_time, elapsed, colorText,
                   barWidth, statusText, statusColor, titleColor,
                   subText, subColor, infoColor, btn, hit, debounced,
                   printed, faults>>

Next ==
    \/ LoopTop
    \/ Draw
    \/ Fill
    \/ Inc
    \/ CounterSetText
    \/ ReadClock
    \/ TimeSetText
    \/ ColorInfoSetText
    \/ BarBackground
    \/ BarFill
    \/ StatusSetText
    \/ StatusSetColor
    \/ TitleSetColor
    \/ Poll
    \/ SubtitleSetText
    \/ SubtitleSetColor
    \/ Debounce
    \/ Sleep
    \/ BodyInterrupt
    \/ BodyFault
    \/ HandlerSetText
    \/ HandlerSetColor
    \/ HandlerSleep
    \/ HandlerFault
    \/ HandlerInterrupt
    \/ SimpleLoopTop
    \/ SimpleDraw
    \/ SimpleFill
    \/ SimpleInc
    \/ SimpleCounterSetText
    \/ SimpleTitleSetColor
    \/ SimpleInfoSetColor
    \/ SimpleSleep
    \/ SimpleInterrupt
    \/ SimpleFault

Spec == Init /\ [][Next]_vars

(***************************************************************************)
(* random_color() on every triple of draws.                                *)
(***************************************************************************)
InitColor ==
    /\ variant = "random_color" /\ pc = "call" /\ exit = "running"
    /\ iters = 0 /\ skipped = 0 /\ count = 0
    /\ draw \in getrandbits(5) \X getrandbits(6) \X getrandbits(5)
    /\ bg_color = 0 /\ screen = 0
    /\ counterText = "" /\ start_time = 0 /\ elapsed = 0
    /\ timeText = "" /\ colorText = "" /\ barWidth = 0
    /\ statusText = "" /\ statusColor = 0 /\ titleColor = 0
    /\ subText = "" /\ subColor = 0 /\ infoColor = 0
    /\ btn = NoButton /\ hit = "none" /\ debounced = 0
    /\ printed = {} /\ faults = 0

NextColor == CallRandomColor

SpecColor == InitColor /\ [][NextColor]_vars

(***************************************************************************)
(* The time label on every elapsed-seconds value up to MaxElapsed.         *)
(***************************************************************************)
InitTime ==
    /\ variant = "time_label" /\ pc = "call" /\ exit = "running"
    /\ iters = 0 /\ skipped = 0 /\ count = 0
    /\ draw = <<0, 0, 0>> /\ bg_color = 0 /\ screen = 0
    /\ counterText = "" /\ start_time = 0
    /\ elapsed \in 0 .. MaxElapsed
    /\ timeText = "" /\ colorText = "" /\ barWidth = 0
    /\ statusText = "" /\ statusColor = 0 /\ titleColor = 0
    /\ subText = "" /\ subColor = 0 /\ infoColor = 0
    /\ btn = NoButton /\ hit = "none" /\ debounced = 0
    /\ printed = {} /\ faults = 0

NextTime == CallTimeLabel

SpecTime == InitTime /\ [][NextTime]_vars

(***************************************************************************)
(* Properties.                                                             *)
(***************************************************************************)
Ext == variant = "ext"

\* positions of the try block that lie after counter.setText (line 65)
AfterCounterText == ExtBodyPcs \ {"draw", "fill", "inc", "ctext"}

\* positions of the try block that lie after the status blink (lines 83-88)
AfterBlink == {"title", "poll", "subtext", "subcolor", "debounce", "sleep"}

\* positions of the try block that lie after title.setColor (line 92)
AfterTitle == {"poll", "subtext", "subcolor", "debounce", "sleep"}

\* C1: extended variant: once a fault raised in the try block has been
\* caught, the loop does not end because of a fault: control stays in the
\* handler until it is back at the top of the loop, and it arrives there
\* with the status label showing "Status: ERROR" in 0xFF0000.  (A user
\* interrupt is the only other way out that the claim leaves open.)
C1_FaultContained ==
    [][(Ext /\ pc \in ExtHandlerPcs)
         => \/ pc' \in ExtHandlerPcs
            \/ pc' = "top" /\ statusText' = "Status: ERROR" /\ statusColor' = RED
            \/ exit' = "uncaught KeyboardInterrupt"]_vars

\* C2: in both variants no non-interrupt fault ever ends main().
C2_NoFaultEndsMain == exit # "uncaught Exception"

\* C3: a user interrupt delivered while the loop runs makes main() return
\* normally (it never leaves main() as an uncaught KeyboardInterrupt), and
\* in the extended variant "Program interrupted by user" has been printed
\* when main() returns.
C3_InterruptReturns ==
    /\ exit # "uncaught KeyboardInterrupt"
    /\ (Ext /\ exit = "return") => "Program interrupted by user" \in printed

\* C4 as stated: after n iterations the counter equals n.
C4_CountEqualsIterations == (pc = "top") => (count = iters)

\* C4 as amended: the counter starts at 0, never decreases, changes only by
\* the increment statement and then by exactly 1; every iteration that gets
\* past the colour draw and the background fill increments it once, and an
\* iteration abandoned before the increment leaves it unchanged, so that
\* after n iterations the counter equals n minus the number of iterations
\* abandoned before the increment (hence at most n).
C4_CountAccounting ==
    /\ [](pc \in {"draw", "fill", "inc"} => count + skipped = iters - 1)
    /\ [](pc \in (({"top"} \cup ExtHandlerPcs \cup ExtBodyPcs \cup SimpleBodyPcs)
                    \ {"draw", "fill", "inc"})
            => count + skipped = iters)
    /\ [](variant = "simple" => skipped = 0)
    /\ [][\/ count' = count
          \/ pc = "inc" /\ count' = count + 1]_vars

C4_Witness ==
    Ext /\ pc = "top" /\ iters = 3 /\ skipped = 1 /\ count = 2

\* C5: extended variant: after the title-colour step of an iteration the
\* title label has the colour palette[count mod 7] of the fixed palette.
C5_TitlePalette ==
    (Ext /\ pc \in AfterTitle) =>
        titleColor = CASE count % 7 = 0 -> 16777215
                       [] count % 7 = 1 -> 16711680
                       [] count % 7 = 2 -> 65280
                       [] count % 7 = 3 -> 255
                       [] count % 7 = 4 -> 16776960
                       [] count % 7 = 5 -> 16711935
                       [] count % 7 = 6 -> 65535

C5_Witness == Ext /\ pc = "poll" /\ count = 8 /\ titleColor = RED

\* C6: extended variant: after the blink step of an iteration the status
\* label reads "Status: ACTIVE" in 0x00FF00 if and only if count mod 4 < 2,
\* and "Status: READY" in 0x0088FF otherwise.
C6_BlinkPhase ==
    (Ext /\ pc \in AfterBlink) =>
        /\ (count % 4 < 2) <=> (statusText = "Status: ACTIVE" /\ statusColor = 65280)
        /\ (count % 4 >= 2) <=> (statusText = "Status: READY" /\ statusColor = 35071)

C6_Witness ==
    Ext /\ pc = "title" /\ count = 6 /\ statusText = "Status: READY"
        /\ statusColor = SKY

\* C7: random_color(): for all draws r in 0..31, g in 0..63, b in 0..31 the
\* result is r*2^11 + g*2^5 + b, lies in 0..65535, and shifting and masking
\* it gives back r, g and b.
C7_Rgb565RoundTrip ==
    (variant = "random_color" /\ pc = "ret") =>
        LET r == draw[1]
            g == draw[2]
            b == draw[3]
            v == bg_color
        IN  /\ v = r * 2048 + g * 32 + b
            /\ v \in 0 .. 65535
            /\ BitAnd(Shr(v, 11), 31) = r
            /\ BitAnd(Shr(v, 5), 63) = g
            /\ BitAnd(v, 31) = b
            /\ (v \div 2048) % 32 = r
            /\ (v \div 32) % 64 = g
            /\ v % 32 = b

C7_Witness ==
    variant = "random_color" /\ pc = "ret" /\ draw = <<21, 42, 10>>
        /\ bg_color = 44362

\* C8: the time label for e elapsed seconds is "Time: MM:SS" with MM the
\* decimal digits of e div 60 and SS those of e mod 60 (0..59), each filled
\* with zeros to two digits; 0 gives 00:00, 59 gives 00:59, 125 gives 02:05.
C8_TimeFormat ==
    (variant = "time_label" /\ pc = "ret") =>
        LET m == elapsed \div 60
            sec == elapsed % 60
            D(d) == DecDigit[d + 1]
            MM == IF m < 100 THEN D(m \div 10) \o D(m % 10)
                  ELSE D(m \div 100) \o D((m \div 10) % 10) \o D(m % 10)
            SS == D(sec \div 10) \o D(sec % 10)
        IN  /\ sec \in 0 .. 59
            /\ timeText = "Time: " \o MM \o ":" \o SS
            /\ elapsed = 0 => timeText = "Time: 00:00"
            /\ elapsed = 59 => timeText = "Time: 00:59"
            /\ elapsed = 125 => timeText = "Time: 02:05"

C8_Witness ==
    variant = "time_label" /\ pc = "ret" /\ elapsed = 125
        /\ timeText = "Time: 02:05"

\* C9: extended variant: when the button step of an iteration is over, the
\* subtitle carries the message and colour of the first pressed button in
\* the order A, B, C, whatever the lower-priority buttons are, and exactly
\* one 0.1 s delay has been taken; with no button pressed the subtitle is
\* "Random Color Background" in 0xFFFF00 and no delay has been taken.
C9_ButtonPriority ==
    (Ext /\ pc = "sleep") =>
        /\ btn["A"] =>
              subText = "Button A Pressed!" /\ subColor = 16711680 /\ debounced = 1
        /\ (~btn["A"] /\ btn["B"]) =>
              subText = "Button B Pressed!" /\ subColor = 65280 /\ debounced = 1
        /\ (~btn["A"] /\ ~btn["B"] /\ btn["C"]) =>
              subText = "Button C Pressed!" /\ subColor = 255 /\ debounced = 1
        /\ (~btn["A"] /\ ~btn["B"] /\ ~btn["C"]) =>
              subText = "Random Color Background" /\ subColor = 16776960
                  /\ debounced = 0

C9_Witness ==
    Ext /\ pc = "sleep" /\ btn = [x \in Buttons |-> TRUE]
        /\ subText = "Button A Pressed!" /\ debounced = 1

====
